---- MODULE Spec2Model ----
(***************************************************************************)
(* WeatherFlow UDP listener (listen.py): the listener/reporter pipeline    *)
(* around one Queue, and report_it's dispatch of one envelope to the       *)
(* console, MQTT and InfluxDB sinks.                                       *)
(*                                                                         *)
(* Conventions.  A JSON object is a TLA+ function from key strings to      *)
(* values; data["k"] raises KeyError exactly when "k" is not in DOMAIN     *)
(* data.  A JSON array is a sequence; Python index k is TLA+ index k+1 and *)
(* raises IndexError when k >= Len.  A character string that the code      *)
(* searches or concatenates (serial_number, topics) is a sequence of       *)
(* one-character or one-segment strings.  args.limit and args.exclude are  *)
(* the comma-joined lists of type names the usage text asks for; no type   *)
(* name contains another, so Python's substring test `T in args.limit` is  *)
(* membership of T in the listed set, and the empty set is the unset       *)
(* (falsy) option.  The thread tracing of -v/--verbose is left out: it      *)
(* prints what the threads do and is no sink.                              *)
(***************************************************************************)
EXTENDS Integers, Sequences, FiniteSets, TLC

VARIABLES
    args,        \* the parsed command line (module global `args`)
    main_pc,     \* position of the main thread
    l_pc,        \* position of listener_task
    l_msg,       \* listener_task's local `msg` (the datagram just read)
    r_pc,        \* position of reporter_task
    cur,         \* reporter_task's local `data` with its arrival number
    q,           \* the Queue shared by the two threads
    nrecv,       \* number of datagrams read from the socket so far
    recvlog,     \* history: the datagrams read, in order of arrival
    enq,         \* history: arrival numbers in the order q.put accepted them
    deq,         \* history: arrival numbers in the order q.get returned them
    rep,         \* history: arrival numbers in the order report_it was called
    out,         \* history: everything the sinks emitted, in order
    excs,        \* history: arrival numbers whose report_it raised
    sinkfail,    \* history: the sink calls that failed, as [id, sink]
    shutdown,    \* a shutdown has been requested from outside
    l_iter,      \* listener iterations begun since the request (saturating)
    r_iter       \* reporter iterations begun since the request (saturating)

vars == <<args, main_pc, l_pc, l_msg, r_pc, cur, q, nrecv, recvlog, enq, deq,
          rep, out, excs, sinkfail, shutdown, l_iter, r_iter>>

\* Number of datagrams the environment delivers in one run.
MaxDatagrams == 3

\* Queue(maxsize=0): Python's Queue treats maxsize <= 0 as "no bound".
maxsize == 0

\* The iteration counters saturate here; the shutdown property needs 0, 1, "more".
IterCap == 2

----------------------------------------------------------------------------
(* Python values *)

\* d["k"] is defined
HasKey(d, k) == k \in DOMAIN d

\* seq[k] is defined, k a Python (0-based, non-negative) index
HasIdx(seq, k) == k < Len(seq)

\* seq[k], k a Python index
At(seq, k) == seq[k + 1]

\* Python's `sub in s` on strings: s has a contiguous run equal to sub
Contains(s, sub) ==
    \E i \in 0..(Len(s) - Len(sub)) :
        \A j \in 1..Len(sub) : s[i + j] = sub[j]

\* seq[k], k a Python index that may be negative (seq[-1] is the last)
PyAt(seq, k) == IF k < 0 THEN seq[Len(seq) + k + 1] ELSE seq[k + 1]

\* A JSON scalar in a field the code passes to int(): json.loads returns a
\* Python int for a JSON number and a Python str for a JSON string.  The
\* fields the code only copies or prints hold plain integers (JSON numbers).
JNum(n) == [num |-> n]

JStr(s) == [str |-> s]

IsStr(v) == "str" \in DOMAIN v

Digits == <<"0", "1", "2", "3", "4", "5", "6", "7", "8", "9">>

IsDigit(c) == \E d \in 1..Len(Digits) : Digits[d] = c

DigitValue(c) == (CHOOSE d \in 1..Len(Digits) : Digits[d] = c) - 1

\* the digits of a decimal literal after its sign
Unsigned(s) == IF s # <<>> /\ s[1] \in {"-", "+"} THEN Tail(s) ELSE s

RECURSIVE ParseDigits(_)
ParseDigits(s) ==
    IF s = <<>> THEN 0
    ELSE 10 * ParseDigits(SubSeq(s, 1, Len(s) - 1)) + DigitValue(s[Len(s)])

\* int(v) raises ValueError: v is a str that is no decimal literal
int_raises(v) ==
    /\ IsStr(v)
    /\ \/ Unsigned(v.str) = <<>>
       \/ \E k \in 1..Len(Unsigned(v.str)) : ~IsDigit(Unsigned(v.str)[k])

\* int(v): an int is returned as it is, a str is parsed as a decimal literal
int(v) ==
    IF IsStr(v)
    THEN IF v.str[1] = "-" THEN 0 - ParseDigits(Unsigned(v.str))
                           ELSE ParseDigits(Unsigned(v.str))
    ELSE v.num

----------------------------------------------------------------------------
(* The type strings report_it tests for, in its order *)

DecodedTypes ==
    {"evt_precip", "evt_strike", "rapid_wind", "obs_air", "obs_sky", "obs_st",
     "device_status", "hub_status"}

DebugTypes == {"wind_debug", "light_debug", "rain_debug"}

RecognisedTypes == DecodedTypes \cup DebugTypes

\* module globals
MQTT_TOPLEVEL_TOPIC == <<"wf">>

precip_type == <<"none", "rain", "hail">>

\* The flag table; `bit` is int(x[0], 16) of the entry, `text` is x[1]
decode_sensor_status_err_text ==
    <<[bit |-> 1,   text |-> "lightning failed"],
      [bit |-> 2,   text |-> "lignthing noise"],
      [bit |-> 4,   text |-> "lightning disturber"],
      [bit |-> 8,   text |-> "pressure failed"],
      [bit |-> 16,  text |-> "temperature failed"],
      [bit |-> 32,  text |-> "rh failed"],
      [bit |-> 64,  text |-> "wind failed"],
      [bit |-> 128, text |-> "precip failed"],
      [bit |-> 256, text |-> "light/uv failed"]>>

decode_sensor_status_ok_text == [bit |-> 0, text |-> "sensors ok"]

\* `(bit & idata) == bit` for a bit that is a power of two
BitSet(bit, idata) == (idata \div bit) % 2 = 1

\* The for loop of decode_sensor_status from table entry k on; `descr` is a
\* string built by +=, kept as the sequence of the pieces appended
RECURSIVE decode_sensor_status_loop_last(_, _, _)
decode_sensor_status_loop_last(idata, k, descr) ==
    IF k > Len(decode_sensor_status_err_text) THEN descr
    ELSE LET x == decode_sensor_status_err_text[k]
         IN  IF BitSet(x.bit, idata)
             THEN decode_sensor_status_loop_last(idata, k + 1, <<x.text>>)
             ELSE decode_sensor_status_loop_last(idata, k + 1, descr)
RECURSIVE decode_sensor_status_loop(_, _, _)
decode_sensor_status_loop(idata, k, descr) ==
    IF k > Len(decode_sensor_status_err_text) THEN descr
    ELSE LET x == decode_sensor_status_err_text[k]
         IN  IF BitSet(x.bit, idata)
             THEN decode_sensor_status_loop(idata, k + 1,
                      (IF Len(descr) > 0 THEN descr \o <<", ">> ELSE descr)
                          \o <<x.text>>)
             ELSE decode_sensor_status_loop(idata, k + 1, descr)

decode_sensor_status(text) ==
    LET idata == int(text)
    IN  IF decode_sensor_status_ok_text.bit = idata
        THEN <<decode_sensor_status_ok_text.text>>
        ELSE decode_sensor_status_loop(idata, 1, <<>>)

----------------------------------------------------------------------------
(* The extraction part of each process_* routine: `reads_T(data)` is TRUE   *)
(* when every subscript the routine evaluates is defined (no KeyError, no   *)
(* IndexError), and `T(data)` is the dict the routine then holds.           *)

reads_evt_precip(data) ==
    /\ HasKey(data, "serial_number")
    /\ HasKey(data, "evt") /\ HasIdx(data.evt, 0)

evt_precip(data) == [timestamp |-> At(data.evt, 0)]

reads_evt_strike(data) ==
    /\ HasKey(data, "serial_number")
    /\ HasKey(data, "evt") /\ HasIdx(data.evt, 2)

evt_strike(data) ==
    [timestamp |-> At(data.evt, 0),
     distance  |-> At(data.evt, 1),
     energy    |-> At(data.evt, 2)]

reads_rapid_wind(data) ==
    /\ HasKey(data, "serial_number")
    /\ HasKey(data, "ob") /\ HasIdx(data.ob, 2)

rapid_wind_time_epoch(data) ==
    [time_epoch |-> At(data.ob, 0),
     timestamp  |-> At(data.ob, 0),
     speed      |-> At(data.ob, 1),
     direction  |-> At(data.ob, 2)]
rapid_wind(data) ==
    [timestamp |-> At(data.ob, 0),
     speed     |-> At(data.ob, 1),
     direction |-> At(data.ob, 2)]

\* data["obs"][0][n] is defined
HasObs(data, n) ==
    /\ HasKey(data, "obs") /\ HasIdx(data.obs, 0)
    /\ HasIdx(At(data.obs, 0), n)

Obs_5_for_4(data, n) == At(At(data.obs, 0), IF n = 4 THEN 5 ELSE n)
Obs(data, n) == At(At(data.obs, 0), n)

reads_obs_air(data) ==
    /\ HasKey(data, "serial_number")
    /\ HasObs(data, 7)
    /\ HasKey(data, "firmware_revision")

obs_air(data) ==
    [timestamp                     |-> Obs(data, 0),
     station_pressure              |-> Obs(data, 1),
     temperature                   |-> Obs(data, 2),
     relative_humidity             |-> Obs(data, 3),
     lightning_strike_count        |-> Obs(data, 4),
     lightning_strike_avg_distance |-> Obs(data, 5),
     battery                       |-> Obs(data, 6),
     report_interval               |-> Obs(data, 7),
     firmware_revision             |-> data.firmware_revision]

reads_obs_st(data) ==
    /\ HasKey(data, "serial_number")
    /\ HasObs(data, 17)
    /\ HasKey(data, "firmware_revision")

obs_st(data) ==
    [timestamp                     |-> Obs(data, 0),
     wind_lull                     |-> Obs(data, 1),
     wind_avg                      |-> Obs(data, 2),
     wind_gust                     |-> Obs(data, 3),
     wind_direction                |-> Obs(data, 4),
     wind_sample_interval          |-> Obs(data, 5),
     station_pressure              |-> Obs(data, 6),
     temperature                   |-> Obs(data, 7),
     relative_humidity             |-> Obs(data, 8),
     illuminance                   |-> Obs(data, 9),
     uv                            |-> Obs(data, 10),
     solar_radiation               |-> Obs(data, 11),
     rain_accumulated              |-> Obs(data, 12),
     precipitation_type            |-> Obs(data, 13),
     lightning_strike_avg_distance |-> Obs(data, 14),
     lightning_strike_count        |-> Obs(data, 15),
     battery                       |-> Obs(data, 16),
     report_interval               |-> Obs(data, 17),
     firmware_revision             |-> data.firmware_revision]

reads_obs_sky(data) ==
    /\ HasKey(data, "serial_number")
    /\ HasObs(data, 13)
    /\ HasKey(data, "firmware_revision")

obs_sky(data) ==
    [timestamp                   |-> Obs(data, 0),
     illuminance                 |-> Obs(data, 1),
     uv                          |-> Obs(data, 2),
     rain_accumulated            |-> Obs(data, 3),
     wind_lull                   |-> Obs(data, 4),
     wind_avg                    |-> Obs(data, 5),
     wind_gust                   |-> Obs(data, 6),
     wind_direction              |-> Obs(data, 7),
     battery                     |-> Obs(data, 8),
     report_interval             |-> Obs(data, 9),
     solar_radiation             |-> Obs(data, 10),
     local_rain_day_accumulation |-> Obs(data, 11),
     precipitation_type          |-> Obs(data, 12),
     wind_sample_interval        |-> Obs(data, 13),
     firmware_revision           |-> data.firmware_revision]

\* `"AR-" in data["serial_number"]` and its elif chain
device_type(data) ==
    IF Contains(data.serial_number, <<"A", "R", "-">>) THEN "air"
    ELSE IF Contains(data.serial_number, <<"S", "K", "-">>) THEN "sky"
    ELSE IF Contains(data.serial_number, <<"S", "T", "-">>) THEN "tempest"
    ELSE "unknown_type"

reads_device_status(data) ==
    /\ HasKey(data, "serial_number")
    /\ HasKey(data, "timestamp") /\ HasKey(data, "uptime")
    /\ HasKey(data, "voltage") /\ HasKey(data, "firmware_revision")
    /\ HasKey(data, "rssi") /\ HasKey(data, "hub_rssi")
    /\ HasKey(data, "sensor_status") /\ HasKey(data, "debug")

device_status(data) ==
    [device            |-> device_type(data),
     timestamp         |-> data.timestamp,
     uptime            |-> data.uptime,
     voltage           |-> data.voltage,
     firmware_revision |-> data.firmware_revision,
     rssi              |-> data.rssi,
     hub_rssi          |-> data.hub_rssi,
     sensor_status     |-> data.sensor_status,
     debug             |-> data.debug]

reads_hub_status(data) ==
    /\ HasKey(data, "serial_number")
    /\ HasKey(data, "firmware_revision") /\ HasKey(data, "uptime")
    /\ HasKey(data, "rssi") /\ HasKey(data, "timestamp")
    /\ HasKey(data, "reset_flags") /\ HasKey(data, "seq")
    /\ HasKey(data, "radio_stats") /\ HasIdx(data.radio_stats, 4)
    /\ ~int_raises(data.firmware_revision)

hub_status(data) ==
    [device              |-> "hub",
     firmware_revision   |-> int(data.firmware_revision),
     uptime              |-> data.uptime,
     rssi                |-> data.rssi,
     timestamp           |-> data.timestamp,
     reset_flags         |-> data.reset_flags,
     seq                 |-> data.seq,
     radio_stats_version |-> At(data.radio_stats, 0),
     reboot_count        |-> At(data.radio_stats, 1),
     i2c_bus_error_count |-> At(data.radio_stats, 2),
     radio_status        |-> At(data.radio_stats, 3),
     radio_network_id    |-> At(data.radio_stats, 4)]

\* The extraction of process_<T>, selected by T
Reads(T, data) ==
    CASE T = "evt_precip"    -> reads_evt_precip(data)
      [] T = "evt_strike"    -> reads_evt_strike(data)
      [] T = "rapid_wind"    -> reads_rapid_wind(data)
      [] T = "obs_air"       -> reads_obs_air(data)
      [] T = "obs_sky"       -> reads_obs_sky(data)
      [] T = "obs_st"        -> reads_obs_st(data)
      [] T = "device_status" -> reads_device_status(data)
      [] T = "hub_status"    -> reads_hub_status(data)

Record(T, data) ==
    CASE T = "evt_precip"    -> evt_precip(data)
      [] T = "evt_strike"    -> evt_strike(data)
      [] T = "rapid_wind"    -> rapid_wind(data)
      [] T = "obs_air"       -> obs_air(data)
      [] T = "obs_sky"       -> obs_sky(data)
      [] T = "obs_st"        -> obs_st(data)
      [] T = "device_status" -> device_status(data)
      [] T = "hub_status"    -> hub_status(data)

\* The `if args.decoded:` block raises after it has begun to print:
\* process_obs_sky subscripts a table, precip_type[int(...)], and a Python
\* list of length n accepts the indices -n..n-1; process_device_status calls
\* decode_sensor_status, whose int(text) raises on a str that is no number.
DecodedPrintRaises(T, data) ==
    \/ /\ T = "obs_sky"
       /\ obs_sky(data).precipitation_type
             \notin (0 - Len(precip_type))..(Len(precip_type) - 1)
    \/ /\ T = "device_status"
       /\ int_raises(device_status(data).sensor_status)

\* What the decoded line shows that is computed and not copied from the dict
DecodedDerived(T, data) ==
    CASE T = "obs_sky" ->
            [precipitation_type |->
                 PyAt(precip_type, obs_sky(data).precipitation_type)]
      [] T = "device_status" ->
            [device_type   |-> device_type(data),
             sensor_status |->
                 decode_sensor_status(device_status(data).sensor_status),
             debug         |-> IF device_status(data).debug = 1
                               THEN "enabled" ELSE "disabled"]
      [] OTHER -> <<>>

\* The decoded line of process_<T>: the dict it is printed from, and the
\* computed values it shows
DecodedLine(T, data) ==
    [record |-> Record(T, data), derived |-> DecodedDerived(T, data)]

\* `topic = MQTT_TOPLEVEL_TOPIC + "/<path>"`, as a sequence of segments
TopicPath(T, data) ==
    CASE T = "evt_precip"    -> <<"evt", "precip">>
      [] T = "evt_strike"    -> <<"evt", "strike">>
      [] T = "rapid_wind"    -> <<"rapid_wind">>
      [] T = "obs_air"       -> <<"obs_air">>
      [] T = "obs_sky"       -> <<"obs_sky">>
      [] T = "obs_st"        -> <<"obs_st">>
      [] T = "device_status" -> <<"status", device_type(data)>>
      [] T = "hub_status"    -> <<"status_hub">>

\* MQTT_TOPLEVEL_TOPIC after `if args.mqtt_topic:` has superseded it
Toplevel(a) == IF a.mqtt_topic # <<>> THEN a.mqtt_topic ELSE MQTT_TOPLEVEL_TOPIC

\* The local `topic` of process_<T> once `if args.mqtt_multisensor:` has run
Topic_hub_sn(a, T, data) ==
    LET topic == Toplevel(a) \o <<"/">> \o TopicPath(T, data)
    IN  IF a.mqtt_multisensor /\ HasKey(data, "hub_sn")
        THEN <<"sensors/">> \o data.hub_sn \o <<"/">> \o topic
        ELSE topic
Topic(a, T, data) ==
    LET topic == Toplevel(a) \o <<"/">> \o TopicPath(T, data)
    IN  IF a.mqtt_multisensor
        THEN <<"sensors/">> \o data.serial_number \o <<"/">> \o topic
        ELSE topic

\* First argument of influxdb_publish in process_<T>
InfluxEvent(a, T, data) ==
    IF T = "device_status" THEN <<"device_status">> ELSE Topic(a, T, data)

----------------------------------------------------------------------------
(* What the sinks emit.  One entry of `out` is one emission: `id` is the    *)
(* arrival number of the envelope it was made for, `sink` says where it     *)
(* went, `what` is its content.                                             *)
(*   raw              print_raw's line(s) on the console                    *)
(*   decoded          the complete decoded line on the console              *)
(*   decoded_partial  the start of a decoded line, cut off by an exception  *)
(*   mqtt_console     mqtt_publish's "publishing to mqtt://..." line        *)
(*   mqtt_payload     mqtt_publish's payload line under --no_pub            *)
(*   mqtt             a message accepted by the broker (publish.single)     *)
(*   influxdb         a point accepted by InfluxDB (write_points)           *)
(*   influxdb_failed  influxdb_publish's "Failed to connect ..." report     *)
(*   error            report_it's "ERROR: unknown data type in" line        *)
(*   syslog           report_it's loginf entry                              *)
(***************************************************************************)

Event(id, sink, what) == [id |-> id, sink |-> sink, what |-> what]

\* print_raw(data)
print_raw(a, id, data) ==
    IF a.raw
    THEN <<Event(id, "raw", [indent |-> a.indent, data |-> data])>>
    ELSE <<>>

\* The two guards that open every process_<T>: TRUE when the routine returns
\* at once.  The code tests exclude first, then limit.
Filtered_ignores_limit(a, T) == a.exclude # {} /\ T \in a.exclude
Filtered(a, T) ==
    \/ (a.exclude # {} /\ T \in a.exclude)
    \/ (a.limit # {} /\ T \notin a.limit)

\* Where process_<T> goes once mqtt_publish has returned
AfterMqtt(a) == IF a.influxdb THEN "influx" ELSE "return"

\* mqtt_publish up to publish.single: its console lines
mqtt_publish_prints(a, id, topic, data) ==
    <<Event(id, "mqtt_console", topic)>>
    \o (IF a.no_pub THEN <<Event(id, "mqtt_payload", data)>> ELSE <<>>)

\* process_<T>(data) up to its first call that waits on the network.
\* ev: what it emitted; next: "return", "raise" (an exception leaves
\* report_it), "mqtt" (inside publish.single) or "influx" (inside
\* influxdb_publish).  The dict a routine fills starts empty (`obs_st = {}`)
\* and is complete when the extraction has run to its end.
process_announce_first(a, id, T, data) ==
    IF Filtered(a, T) THEN [ev |-> <<>>, next |-> "return"]
    ELSE IF T \in DebugTypes
    THEN [ev |-> print_raw(a, id, data), next |-> "return"]
    ELSE IF ~Reads(T, data)
    THEN [ev   |-> print_raw(a, id, data)
                   \o (IF a.mqtt
                       THEN <<Event(id, "mqtt_console",
                                    Toplevel(a) \o <<"/">> \o <<T>>)>>
                       ELSE <<>>),
          next |-> "raise"]
    ELSE IF a.decoded /\ DecodedPrintRaises(T, data)
    THEN [ev   |-> print_raw(a, id, data)
                   \o <<Event(id, "decoded_partial",
                                [record |-> Record(T, data), derived |-> <<>>])>>,
          next |-> "raise"]
    ELSE LET dec == IF a.decoded
                    THEN <<Event(id, "decoded", DecodedLine(T, data))>>
                    ELSE <<>>
         IN  IF a.mqtt
             THEN [ev   |-> print_raw(a, id, data) \o dec
                            \o mqtt_publish_prints(a, id, Topic(a, T, data),
                                                   Record(T, data)),
                   next |-> IF a.no_pub THEN AfterMqtt(a) ELSE "mqtt"]
             ELSE [ev |-> print_raw(a, id, data) \o dec, next |-> AfterMqtt(a)]
process_forward_partial(a, id, T, data) ==
    IF Filtered(a, T) THEN [ev |-> <<>>, next |-> "return"]
    ELSE IF T \in DebugTypes
    THEN [ev |-> print_raw(a, id, data), next |-> "return"]
    ELSE IF ~Reads(T, data)
    THEN [ev   |-> print_raw(a, id, data)
                   \o (IF a.decoded
                       THEN <<Event(id, "decoded",
                                    [record |-> <<>>, derived |-> <<>>])>>
                       ELSE <<>>)
                   \o (IF a.mqtt
                       THEN mqtt_publish_prints(a, id, Toplevel(a), <<>>)
                       ELSE <<>>),
          next |-> "return"]
    ELSE IF a.decoded /\ DecodedPrintRaises(T, data)
    THEN [ev   |-> print_raw(a, id, data)
                   \o <<Event(id, "decoded_partial",
                                [record |-> Record(T, data), derived |-> <<>>])>>,
          next |-> "raise"]
    ELSE LET dec == IF a.decoded
                    THEN <<Event(id, "decoded", DecodedLine(T, data))>>
                    ELSE <<>>
         IN  IF a.mqtt
             THEN [ev   |-> print_raw(a, id, data) \o dec
                            \o mqtt_publish_prints(a, id, Topic(a, T, data),
                                                   Record(T, data)),
                   next |-> IF a.no_pub THEN AfterMqtt(a) ELSE "mqtt"]
             ELSE [ev |-> print_raw(a, id, data) \o dec, next |-> AfterMqtt(a)]
process(a, id, T, data) ==
    IF Filtered(a, T) THEN [ev |-> <<>>, next |-> "return"]
    ELSE IF T \in DebugTypes
    THEN [ev |-> print_raw(a, id, data), next |-> "return"]
    ELSE IF ~Reads(T, data)
    THEN [ev |-> print_raw(a, id, data), next |-> "raise"]
    ELSE IF a.decoded /\ DecodedPrintRaises(T, data)
    THEN [ev   |-> print_raw(a, id, data)
                   \o <<Event(id, "decoded_partial",
                                [record |-> Record(T, data), derived |-> <<>>])>>,
          next |-> "raise"]
    ELSE LET dec == IF a.decoded
                    THEN <<Event(id, "decoded", DecodedLine(T, data))>>
                    ELSE <<>>
         IN  IF a.mqtt
             THEN [ev   |-> print_raw(a, id, data) \o dec
                            \o mqtt_publish_prints(a, id, Topic(a, T, data),
                                                   Record(T, data)),
                   next |-> IF a.no_pub THEN AfterMqtt(a) ELSE "mqtt"]
             ELSE [ev |-> print_raw(a, id, data) \o dec, next |-> AfterMqtt(a)]

\* report_it(data) up to its first call that waits on the network
\* data with an empty serial_number where it has none
WithSerial(data) ==
    IF HasKey(data, "serial_number") THEN data
    ELSE [k \in DOMAIN data \cup {"serial_number"} |->
             IF k = "serial_number" THEN <<>> ELSE data[k]]

report_it_default_serial(a, id, data) ==
    IF ~HasKey(data, "type") THEN [ev |-> <<>>, next |-> "raise"]
    ELSE IF data.type \in RecognisedTypes
    THEN process(a, id, data.type, WithSerial(data))
    ELSE [ev   |-> <<Event(id, "error", data)>>
                   \o (IF a.syslog THEN <<Event(id, "syslog", data)>> ELSE <<>>),
          next |-> "return"]
report_it_no_debug(a, id, data) ==
    IF ~HasKey(data, "type") THEN [ev |-> <<>>, next |-> "raise"]
    ELSE IF data.type \in DecodedTypes THEN process(a, id, data.type, data)
    ELSE [ev   |-> <<Event(id, "error", data)>>
                   \o (IF a.syslog THEN <<Event(id, "syslog", data)>> ELSE <<>>),
          next |-> "return"]
report_it(a, id, data) ==
    IF ~HasKey(data, "type") THEN [ev |-> <<>>, next |-> "raise"]
    ELSE IF data.type \in RecognisedTypes THEN process(a, id, data.type, data)
    ELSE [ev   |-> <<Event(id, "error", data)>>
                   \o (IF a.syslog THEN <<Event(id, "syslog", data)>> ELSE <<>>),
          next |-> "return"]

----------------------------------------------------------------------------
(* Command lines *)

Cfg(raw, decoded, mqtt, influxdb, no_pub, multi, syslog, limit, exclude) ==
    [raw |-> raw, decoded |-> decoded, syslog |-> syslog, indent |-> FALSE,
     mqtt |-> mqtt, mqtt_multisensor |-> multi, no_pub |-> no_pub,
     mqtt_topic |-> <<>>, influxdb |-> influxdb,
     limit |-> limit, exclude |-> exclude]

\* The two checks of __main__ that end the run before any thread starts
StartupRejects(a) ==
    \/ (a.indent /\ ~a.raw)
    \/ (~a.mqtt /\ ~a.decoded /\ ~a.raw /\ ~a.influxdb)

\* Command lines of the pipeline runs: every sink on with one type excluded;
\* the two network sinks alone, namespaced, with an allow-list.
PipelineConfigs ==
    {Cfg(TRUE, TRUE, TRUE, TRUE, FALSE, FALSE, TRUE, {}, {"evt_precip"}),
     Cfg(FALSE, FALSE, TRUE, TRUE, FALSE, TRUE, FALSE,
         {"rapid_wind", "obs_sky"}, {})}

\* Command lines of the single-envelope runs: every combination of the four
\* sinks that __main__ accepts, with and without --no_pub, --multisensor and
\* --syslog, under each pairing of these allow- and deny-lists.
LimitChoices == {{}, {"rapid_wind", "obs_sky", "wind_debug"}}

ExcludeChoices == {{}, {"rapid_wind"}, {"obs_air", "light_debug"}}

DispatchConfigs ==
    {c \in {Cfg(raw, decoded, mqtt, influxdb, no_pub, multi, syslog, lim, exc) :
               raw \in BOOLEAN, decoded \in BOOLEAN, mqtt \in BOOLEAN,
               influxdb \in BOOLEAN, no_pub \in BOOLEAN, multi \in BOOLEAN,
               syslog \in BOOLEAN, lim \in LimitChoices, exc \in ExcludeChoices} :
        ~StartupRejects(c)}

----------------------------------------------------------------------------
(* Envelopes and datagrams *)

SN_AR == <<"A", "R", "-", "1">>
SN_SK == <<"S", "K", "-", "1">>
SN_ST == <<"S", "T", "-", "1">>
SN_HB == <<"H", "B", "-", "1">>

E_evt_precip ==
    [type |-> "evt_precip", serial_number |-> SN_SK, hub_sn |-> SN_HB,
     evt |-> <<11>>]

E_rapid_wind ==
    [type |-> "rapid_wind", serial_number |-> SN_ST, hub_sn |-> SN_HB,
     ob |-> <<12, 2, 180>>]

\* ob one element short
E_rapid_wind_short ==
    [type |-> "rapid_wind", serial_number |-> SN_ST, hub_sn |-> SN_HB,
     ob |-> <<12, 2>>]

E_obs_sky_pt(pt) ==
    [type |-> "obs_sky", serial_number |-> SN_SK, hub_sn |-> SN_HB,
     obs |-> <<<<13, 9000, 10, 0, 2, 4, 6, 187, 3, 1, 130, 0, pt, 3>>>>,
     firmware_revision |-> 29]

\* a JSON object without "type"
E_notype == [serial_number |-> SN_ST, ob |-> <<12, 2, 180>>]

\* a type string report_it does not know
E_unknown == [type |-> "obs_moon", serial_number |-> SN_ST]

E_evt_strike ==
    [type |-> "evt_strike", serial_number |-> SN_AR, hub_sn |-> SN_HB,
     evt |-> <<14, 27, 3848>>]

E_obs_air ==
    [type |-> "obs_air", serial_number |-> SN_AR, hub_sn |-> SN_HB,
     obs |-> <<<<15, 835, 10, 45, 0, 0, 3, 1>>>>,
     firmware_revision |-> 17]

\* obs_air without its firmware_revision key
E_obs_air_nofw ==
    [type |-> "obs_air", serial_number |-> SN_AR, hub_sn |-> SN_HB,
     obs |-> <<<<15, 835, 10, 45, 0, 0, 3, 1>>>>]

E_obs_st ==
    [type |-> "obs_st", serial_number |-> SN_ST, hub_sn |-> SN_HB,
     obs |-> <<<<16, 1, 2, 3, 187, 3, 835, 10, 45, 9000, 10, 130, 0, 0, 0, 0,
                 2, 1>>>>,
     firmware_revision |-> 129]

\* obs_st with the last element of obs[0] missing
E_obs_st_short ==
    [type |-> "obs_st", serial_number |-> SN_ST, hub_sn |-> SN_HB,
     obs |-> <<<<16, 1, 2, 3, 187, 3, 835, 10, 45, 9000, 10, 130, 0, 0, 0, 0,
                 2>>>>,
     firmware_revision |-> 129]

\* device_status from the device `sn`, its sensor_status the JSON scalar `ss`
E_device_status_of(sn, ss) ==
    [type |-> "device_status", serial_number |-> sn, hub_sn |-> SN_HB,
     timestamp |-> 17, uptime |-> 2189, voltage |-> 3, firmware_revision |-> 17,
     rssi |-> -17, hub_rssi |-> -87, sensor_status |-> ss, debug |-> 0]

E_device_status == E_device_status_of(SN_AR, JNum(4))

\* hub_status, its firmware_revision the JSON scalar `fw` (the hub sends a
\* string, "35")
E_hub_status_of(fw) ==
    [type |-> "hub_status", serial_number |-> SN_HB, firmware_revision |-> fw,
     uptime |-> 1670133, rssi |-> -62, timestamp |-> 18,
     reset_flags |-> <<"BOR", "PIN", "POR">>, seq |-> 48, fs |-> <<1, 0>>,
     radio_stats |-> <<2, 1, 0, 3, 2839>>, mqtt_stats |-> <<1, 0>>]

E_hub_status == E_hub_status_of(JStr(<<"3", "5">>))

\* rapid_wind without its serial_number key
E_rapid_wind_nosn ==
    [type |-> "rapid_wind", hub_sn |-> SN_HB, ob |-> <<12, 2, 180>>]

E_debug(T) == [type |-> T, serial_number |-> SN_SK, hub_sn |-> SN_HB]

\* a debug envelope with nothing but its type
E_debug_bare == [type |-> "rain_debug"]

\* evt_precip with an empty evt
E_evt_precip_short ==
    [type |-> "evt_precip", serial_number |-> SN_SK, hub_sn |-> SN_HB,
     evt |-> <<>>]

\* evt_strike with the energy missing from evt
E_evt_strike_short ==
    [type |-> "evt_strike", serial_number |-> SN_AR, hub_sn |-> SN_HB,
     evt |-> <<14, 27>>]

\* obs_air with the last element of obs[0] missing
E_obs_air_short ==
    [type |-> "obs_air", serial_number |-> SN_AR, hub_sn |-> SN_HB,
     obs |-> <<<<15, 835, 10, 45, 0, 0, 3>>>>,
     firmware_revision |-> 17]

\* obs_sky with the last element of obs[0] missing
E_obs_sky_short ==
    [type |-> "obs_sky", serial_number |-> SN_SK, hub_sn |-> SN_HB,
     obs |-> <<<<13, 9000, 10, 0, 2, 4, 6, 187, 3, 1, 130, 0, 0>>>>,
     firmware_revision |-> 29]

\* obs_sky with an empty obs: there is no obs[0]
E_obs_sky_noobs ==
    [type |-> "obs_sky", serial_number |-> SN_SK, hub_sn |-> SN_HB,
     obs |-> <<>>, firmware_revision |-> 29]

\* hub_status with the last element of radio_stats missing
E_hub_status_short ==
    [type |-> "hub_status", serial_number |-> SN_HB,
     firmware_revision |-> JStr(<<"3", "5">>),
     uptime |-> 1670133, rssi |-> -62, timestamp |-> 18,
     reset_flags |-> <<"BOR", "PIN", "POR">>, seq |-> 48, fs |-> <<1, 0>>,
     radio_stats |-> <<2, 1, 0, 3>>, mqtt_stats |-> <<1, 0>>]

\* A positional sequence of n elements, all different: Python index k holds
\* 100 + k
Numbered(n) == [j \in 1..n |-> 99 + j]

E_evt_strike_numbered == [E_evt_strike EXCEPT !.evt = Numbered(3)]

E_rapid_wind_numbered == [E_rapid_wind EXCEPT !.ob = Numbered(3)]

E_obs_air_numbered == [E_obs_air EXCEPT !.obs = <<Numbered(8)>>]

E_obs_sky_numbered == [E_obs_sky_pt(0) EXCEPT !.obs = <<Numbered(14)>>]

E_obs_st_numbered == [E_obs_st EXCEPT !.obs = <<Numbered(18)>>]

E_hub_status_numbered == [E_hub_status EXCEPT !.radio_stats = Numbered(5)]

\* A datagram: `fault` says which step of the listener's try block fails on
\* it ("utf8": msg.decode(); "json": json.loads(msg)), `value` is what
\* json.loads returns when none does.
Datagram(fault, value) == [fault |-> fault, value |-> value]

WellFormed(d) == d.fault = "none"

PipelineDatagrams ==
    {Datagram("utf8", <<>>),
     Datagram("json", <<>>),
     Datagram("none", E_notype),
     Datagram("none", E_unknown),
     Datagram("none", E_evt_precip),
     Datagram("none", E_rapid_wind),
     Datagram("none", E_rapid_wind_short),
     Datagram("none", E_obs_sky_pt(3))}

\* An envelope without its serial_number key, all else as it was
NoSerial(e) == [k \in DOMAIN e \ {"serial_number"} |-> e[k]]

\* A complete envelope of each decoded type, less its serial_number
NoSerialEnvelopes ==
    {NoSerial(e) : e \in {E_evt_precip, E_evt_strike, E_rapid_wind, E_obs_air,
                          E_obs_sky_pt(0), E_obs_st, E_device_status,
                          E_hub_status}}

DispatchEnvelopes ==
    {E_evt_precip, E_evt_strike, E_rapid_wind, E_obs_air, E_obs_sky_pt(0),
     E_obs_sky_pt(3), E_obs_st, E_device_status, E_hub_status,
     E_debug("wind_debug"), E_debug("light_debug"), E_debug("rain_debug"),
     E_notype, E_unknown, E_rapid_wind_short, E_rapid_wind_nosn,
     E_obs_air_nofw, E_obs_st_short, E_evt_precip_short, E_evt_strike_short,
     E_obs_air_short, E_obs_sky_short, E_obs_sky_noobs, E_hub_status_short,
     E_evt_strike_numbered, E_rapid_wind_numbered, E_obs_air_numbered,
     E_obs_sky_numbered, E_obs_st_numbered, E_hub_status_numbered,
     E_debug_bare}
    \cup NoSerialEnvelopes

----------------------------------------------------------------------------
(* The threads *)

\* Queue.put(item) returns without waiting: the queue has room
put_ready_bounded(queue) == Len(queue) < 1
put_ready(queue) == maxsize <= 0 \/ Len(queue) < maxsize

\* One more iteration of a `while 1:` loop, counted once a shutdown is asked
Bump(n) == IF shutdown /\ n < IterCap THEN n + 1 ELSE n

Init ==
    /\ args \in PipelineConfigs
    /\ main_pc = "start"
    /\ l_pc = "new" /\ r_pc = "new"
    /\ l_msg = <<>> /\ cur = <<>>
    /\ q = <<>>
    /\ nrecv = 0
    /\ recvlog = <<>> /\ enq = <<>> /\ deq = <<>> /\ rep = <<>>
    /\ out = <<>> /\ excs = {} /\ sinkfail = {}
    /\ shutdown = FALSE /\ l_iter = 0 /\ r_iter = 0

\* __main__: the argument checks, Queue(maxsize=0), the two daemon threads
\* started; the main thread then waits in t.join().
MainStart ==
    /\ main_pc = "start"
    /\ IF StartupRejects(args)
       THEN /\ main_pc' = "exit"
            /\ UNCHANGED <<l_pc, r_pc>>
       ELSE /\ main_pc' = "join"
            /\ l_pc' = "recv" /\ r_pc' = "check"
    /\ UNCHANGED <<args, l_msg, cur, q, nrecv, recvlog, enq, deq, rep, out,
                   excs, sinkfail, shutdown, l_iter, r_iter>>

\* listener_task: s.recvfrom(1024) on the non-blocking socket.  It returns
\* the next datagram, or raises because none is waiting and the bare except
\* sends the loop to its sleep.
ListenerRecv(datagrams) ==
    /\ l_pc = "recv"
    /\ \/ /\ nrecv < MaxDatagrams
          /\ \E d \in datagrams :
                /\ l_msg' = d
                /\ recvlog' = Append(recvlog, d)
          /\ nrecv' = nrecv + 1
          /\ l_pc' = "parse"
       \/ /\ l_pc' = "sleep"
          /\ UNCHANGED <<l_msg, nrecv, recvlog>>
    /\ UNCHANGED <<args, main_pc, r_pc, cur, q, enq, deq, rep, out, excs, sinkfail,
                   shutdown, l_iter, r_iter>>

\* listener_task: msg.decode(), json.loads(msg), q.put(data).  A failure of
\* the first two is swallowed by `except: pass`; q.put waits while the queue
\* has no room.
ListenerPut_enqueues_bad ==
    /\ l_pc = "parse"
    /\ put_ready(q)
    /\ q' = Append(q, [id |-> nrecv, data |-> l_msg.value])
    /\ enq' = Append(enq, nrecv)
    /\ l_pc' = "sleep"
    /\ UNCHANGED <<args, main_pc, l_msg, r_pc, cur, nrecv, recvlog, deq, rep,
                   out, excs, sinkfail, shutdown, l_iter, r_iter>>
ListenerPut_uncaught ==
    /\ l_pc = "parse"
    /\ IF WellFormed(l_msg)
       THEN /\ put_ready(q)
            /\ q' = Append(q, [id |-> nrecv, data |-> l_msg.value])
            /\ enq' = Append(enq, nrecv)
            /\ l_pc' = "sleep"
       ELSE /\ l_pc' = "dead"
            /\ UNCHANGED <<q, enq>>
    /\ UNCHANGED <<args, main_pc, l_msg, r_pc, cur, nrecv, recvlog, deq, rep,
                   out, excs, sinkfail, shutdown, l_iter, r_iter>>
ListenerPut ==
    /\ l_pc = "parse"
    /\ IF WellFormed(l_msg)
       THEN /\ put_ready(q)
            /\ q' = Append(q, [id |-> nrecv, data |-> l_msg.value])
            /\ enq' = Append(enq, nrecv)
       ELSE UNCHANGED <<q, enq>>
    /\ l_pc' = "sleep"
    /\ UNCHANGED <<args, main_pc, l_msg, r_pc, cur, nrecv, recvlog, deq, rep,
                   out, excs, sinkfail, shutdown, l_iter, r_iter>>

\* listener_task: time.sleep(0.01), then `while 1:` again
ListenerSleep ==
    /\ l_pc = "sleep"
    /\ l_pc' = "recv"
    /\ l_iter' = Bump(l_iter)
    /\ UNCHANGED <<args, main_pc, l_msg, r_pc, cur, q, nrecv, recvlog, enq,
                   deq, rep, out, excs, sinkfail, shutdown, r_iter>>

\* reporter_task: `while not q.empty():`
ReporterCheck_unchecked ==
    /\ r_pc = "check"
    /\ r_pc' = "get"
    /\ UNCHANGED <<args, main_pc, l_pc, l_msg, cur, q, nrecv, recvlog, enq,
                   deq, rep, out, excs, sinkfail, shutdown, l_iter, r_iter>>
ReporterCheck ==
    /\ r_pc = "check"
    /\ r_pc' = IF q = <<>> THEN "sleep" ELSE "get"
    /\ UNCHANGED <<args, main_pc, l_pc, l_msg, cur, q, nrecv, recvlog, enq,
                   deq, rep, out, excs, sinkfail, shutdown, l_iter, r_iter>>

\* reporter_task: `data = q.get()`, which waits while the queue is empty
ReporterGet_lifo ==
    /\ r_pc = "get"
    /\ q # <<>>
    /\ cur' = q[Len(q)]
    /\ q' = SubSeq(q, 1, Len(q) - 1)
    /\ deq' = Append(deq, q[Len(q)].id)
    /\ r_pc' = "report"
    /\ UNCHANGED <<args, main_pc, l_pc, l_msg, nrecv, recvlog, enq, rep, out,
                   excs, sinkfail, shutdown, l_iter, r_iter>>
ReporterGet ==
    /\ r_pc = "get"
    /\ q # <<>>
    /\ cur' = Head(q)
    /\ q' = Tail(q)
    /\ deq' = Append(deq, Head(q).id)
    /\ r_pc' = "report"
    /\ UNCHANGED <<args, main_pc, l_pc, l_msg, nrecv, recvlog, enq, rep, out,
                   excs, sinkfail, shutdown, l_iter, r_iter>>

\* Where reporter_task stands after report_it went `next`: an exception is
\* swallowed by `except: pass` and the loop sleeps; a return goes back to
\* `while not q.empty():`.
ReporterAfter_retry(next) ==
    CASE next = "return" -> "check"
      [] next = "raise"  -> "report"
      [] OTHER           -> next
ReporterAfter_uncaught(next) ==
    CASE next = "return" -> "check"
      [] next = "raise"  -> "dead"
      [] OTHER           -> next
ReporterAfter(next) ==
    CASE next = "return" -> "check"
      [] next = "raise"  -> "sleep"
      [] OTHER           -> next

\* reporter_task: report_it(data), up to its first call that waits on the
\* network
ReporterReport ==
    /\ r_pc = "report"
    /\ LET r == report_it(args, cur.id, cur.data)
       IN  /\ rep' = Append(rep, cur.id)
           /\ out' = out \o r.ev
           /\ r_pc' = ReporterAfter(r.next)
           /\ excs' = IF r.next = "raise" THEN excs \cup {cur.id} ELSE excs
           /\ sinkfail' = sinkfail
    /\ UNCHANGED <<args, main_pc, l_pc, l_msg, cur, q, nrecv, recvlog, enq,
                   deq, shutdown, l_iter, r_iter>>

\* mqtt_publish: publish.single(...) returns, or raises (broker unreachable).
\* Nothing in mqtt_publish, process_<T> or report_it catches what it raises.
MqttReturn ==
    /\ r_pc = "mqtt"
    /\ \E ok \in BOOLEAN :
          IF ok
          THEN /\ out' = Append(out,
                          Event(cur.id, "mqtt",
                                [topic   |-> Topic(args, cur.data.type, cur.data),
                                 payload |-> Record(cur.data.type, cur.data)]))
               /\ r_pc' = ReporterAfter(AfterMqtt(args))
               /\ excs' = excs
               /\ sinkfail' = sinkfail
          ELSE /\ out' = out
               /\ r_pc' = ReporterAfter("raise")
               /\ excs' = excs \cup {cur.id}
               /\ sinkfail' = sinkfail \cup {[id |-> cur.id, sink |-> "mqtt"]}
    /\ UNCHANGED <<args, main_pc, l_pc, l_msg, cur, q, nrecv, recvlog, enq,
                   deq, rep, shutdown, l_iter, r_iter>>

\* influxdb_publish(event, data): the try block ends in one of three ways.
\*   "ok"       write_points accepted the point.
\*   "write"    write_points raised: both lines of the handler are printed.
\*   "connect"  InfluxDBClient(...) raised: `payload` is not yet bound, so
\*              the handler's second print raises after its first.
InfluxReturn ==
    /\ r_pc = "influx"
    /\ \E res \in {"ok", "write", "connect"} :
          LET T     == cur.data.type
              point == [measurement |-> InfluxEvent(args, T, cur.data),
                        time        |-> Record(T, cur.data).timestamp,
                        fields      |-> Record(T, cur.data)]
          IN  /\ out' = Append(out,
                          IF res = "ok"
                          THEN Event(cur.id, "influxdb", point)
                          ELSE Event(cur.id, "influxdb_failed", res))
              /\ r_pc' = ReporterAfter(IF res = "connect" THEN "raise"
                                                          ELSE "return")
              /\ excs' = IF res = "connect" THEN excs \cup {cur.id} ELSE excs
              /\ sinkfail' = IF res = "ok" THEN sinkfail
                             ELSE sinkfail \cup {[id |-> cur.id, sink |-> "influxdb"]}
    /\ UNCHANGED <<args, main_pc, l_pc, l_msg, cur, q, nrecv, recvlog, enq,
                   deq, rep, shutdown, l_iter, r_iter>>

\* reporter_task: time.sleep(0.01), then `while 1:` again
ReporterSleep ==
    /\ r_pc = "sleep"
    /\ r_pc' = "check"
    /\ r_iter' = Bump(r_iter)
    /\ UNCHANGED <<args, main_pc, l_pc, l_msg, cur, q, nrecv, recvlog, enq,
                   deq, rep, out, excs, sinkfail, shutdown, l_iter>>

listener_task == ListenerRecv(PipelineDatagrams) \/ ListenerPut \/ ListenerSleep

reporter_task ==
    \/ ReporterCheck \/ ReporterGet \/ ReporterReport
    \/ MqttReturn \/ InfluxReturn \/ ReporterSleep

Next == MainStart \/ listener_task \/ reporter_task

Spec == Init /\ [][Next]_vars

\* The pipeline on the datagrams the liveness properties are about: one that
\* is not JSON, an object without "type", and a well-formed rapid_wind.
LiveDatagrams ==
    {Datagram("json", <<>>),
     Datagram("none", E_notype),
     Datagram("none", E_rapid_wind)}

LiveListener == ListenerRecv(LiveDatagrams) \/ ListenerPut \/ ListenerSleep

LiveNext == MainStart \/ LiveListener \/ reporter_task

\* The two threads are scheduled again and again, and a sink call that was
\* begun ends (returns or raises).  Whether a datagram arrives stays the
\* network's choice: ListenerRecv may always find none.
FairSpec ==
    /\ Init /\ [][LiveNext]_vars
    /\ WF_vars(MainStart) /\ WF_vars(LiveListener) /\ WF_vars(reporter_task)

\* A shutdown is asked of the running process from outside (SIGINT, SIGTERM).
\* No statement of listener_task or reporter_task reads anything it sets.
RequestShutdown ==
    /\ main_pc = "join"
    /\ ~shutdown
    /\ shutdown' = TRUE
    /\ UNCHANGED <<args, main_pc, l_pc, l_msg, r_pc, cur, q, nrecv, recvlog,
                   enq, deq, rep, out, excs, sinkfail, l_iter, r_iter>>

ShutdownNext == Next \/ RequestShutdown

ShutdownSpec == Init /\ [][ShutdownNext]_vars

\* The reporter alone, on one envelope the listener has put in the queue:
\* the state after MainStart, ListenerRecv and ListenerPut, for any accepted
\* command line and any envelope.
DispatchInit ==
    /\ args \in DispatchConfigs
    /\ main_pc = "join"
    /\ l_pc = "sleep" /\ r_pc = "check"
    /\ \E e \in DispatchEnvelopes :
          /\ l_msg = Datagram("none", e)
          /\ recvlog = <<Datagram("none", e)>>
          /\ q = <<[id |-> 1, data |-> e]>>
    /\ cur = <<>>
    /\ nrecv = 1
    /\ enq = <<1>> /\ deq = <<>> /\ rep = <<>>
    /\ out = <<>> /\ excs = {} /\ sinkfail = {}
    /\ shutdown = FALSE /\ l_iter = 0 /\ r_iter = 0

DispatchNext == reporter_task

DispatchSpec == DispatchInit /\ [][DispatchNext]_vars

\* The largest sensor_status mask drawn: 0x1FF, all nine flags of the table
MaxMask == 511

\* Serial numbers are put together from at most this many pieces
MaxPieces == 3

SerialPieces ==
    {<<"A", "R", "-">>, <<"S", "K", "-">>, <<"S", "T", "-">>, <<"A", "R">>,
     <<"-">>, <<"1">>, <<"X">>}

RECURSIVE SerialsOf(_)
SerialsOf(n) ==
    IF n = 0 THEN {<<>>}
    ELSE SerialsOf(n - 1)
         \cup {s \o p : s \in SerialsOf(n - 1), p \in SerialPieces}

SerialNumbers == SerialsOf(MaxPieces)

\* device_status envelopes: every mask as a JSON number, some as the JSON
\* string the hub's documentation shows, one string that is no number, and
\* every serial number
StatusEnvelopes ==
    {E_device_status_of(SN_AR, JNum(m)) : m \in 0..MaxMask}
    \cup {E_device_status_of(SN_AR, JStr(t)) :
             t \in {<<"0">>, <<"4">>, <<"9">>, <<"5", "1", "1">>, <<"x">>}}
    \cup {E_device_status_of(sn, JNum(4)) : sn \in SerialNumbers}

\* Command lines of the device_status runs: the decoded print alone, and
\* with both network sinks
StatusConfigs ==
    {Cfg(FALSE, TRUE, FALSE, FALSE, FALSE, FALSE, FALSE, {}, {}),
     Cfg(FALSE, TRUE, TRUE, TRUE, FALSE, TRUE, FALSE, {}, {})}

\* The reporter alone, on one device_status envelope in the queue
StatusInit ==
    /\ args \in StatusConfigs
    /\ main_pc = "join"
    /\ l_pc = "sleep" /\ r_pc = "check"
    /\ \E e \in StatusEnvelopes :
          /\ l_msg = Datagram("none", e)
          /\ recvlog = <<Datagram("none", e)>>
          /\ q = <<[id |-> 1, data |-> e]>>
    /\ cur = <<>>
    /\ nrecv = 1
    /\ enq = <<1>> /\ deq = <<>> /\ rep = <<>>
    /\ out = <<>> /\ excs = {} /\ sinkfail = {}
    /\ shutdown = FALSE /\ l_iter = 0 /\ r_iter = 0

StatusSpec == StatusInit /\ [][DispatchNext]_vars

\* Command lines of the forwarding runs: MQTT, InfluxDB or both, with and
\* without --no_pub and --multisensor, with --mqtt_topic unset and set
TopicChoices == {<<>>, <<"home">>}

ForwardConfigs ==
    {c \in {[Cfg(FALSE, FALSE, mqtt, influxdb, no_pub, multi, FALSE, {}, {})
                EXCEPT !.mqtt_topic = t] :
               mqtt \in BOOLEAN, influxdb \in BOOLEAN, no_pub \in BOOLEAN,
               multi \in BOOLEAN, t \in TopicChoices} :
        ~StartupRejects(c)}

\* Complete envelopes of the eight decoded types, the device_status ones from
\* devices of every kind
ForwardEnvelopes ==
    {E_evt_precip, E_evt_strike, E_rapid_wind, E_obs_air, E_obs_sky_pt(1),
     E_obs_st, E_hub_status, E_rapid_wind_numbered, E_obs_st_numbered}
    \cup {E_device_status_of(sn, JNum(0)) : sn \in {SN_AR, SN_SK, SN_ST, SN_HB}}

\* The reporter alone, on one complete envelope in the queue
ForwardInit ==
    /\ args \in ForwardConfigs
    /\ main_pc = "join"
    /\ l_pc = "sleep" /\ r_pc = "check"
    /\ \E e \in ForwardEnvelopes :
          /\ l_msg = Datagram("none", e)
          /\ recvlog = <<Datagram("none", e)>>
          /\ q = <<[id |-> 1, data |-> e]>>
    /\ cur = <<>>
    /\ nrecv = 1
    /\ enq = <<1>> /\ deq = <<>> /\ rep = <<>>
    /\ out = <<>> /\ excs = {} /\ sinkfail = {}
    /\ shutdown = FALSE /\ l_iter = 0 /\ r_iter = 0

ForwardSpec == ForwardInit /\ [][DispatchNext]_vars

\* Envelopes whose scalars carry their JSON type: a rapid_wind with `speed`
\* the JSON scalar sp, device_status and hub_status with sensor_status and
\* firmware_revision a number or a string
E_rapid_wind_of(sp) ==
    [type |-> "rapid_wind", serial_number |-> SN_ST, hub_sn |-> SN_HB,
     ob |-> <<JNum(12), sp, JNum(180)>>]

TypedEnvelopes ==
    {E_rapid_wind_of(JNum(2)), E_rapid_wind_of(JStr(<<"2">>)),
     E_device_status_of(SN_AR, JNum(4)),
     E_device_status_of(SN_AR, JStr(<<"4">>)),
     E_hub_status_of(JNum(35)), E_hub_status_of(JStr(<<"3", "5">>)),
     E_hub_status_of(JStr(<<"v", "3", "5">>))}

\* Command lines of these runs: both network sinks, with and without the
\* decoded print and --no_pub
TypedConfigs ==
    {Cfg(FALSE, decoded, TRUE, TRUE, no_pub, FALSE, FALSE, {}, {}) :
        decoded \in BOOLEAN, no_pub \in BOOLEAN}

\* The reporter alone, on one such envelope in the queue
TypedInit ==
    /\ args \in TypedConfigs
    /\ main_pc = "join"
    /\ l_pc = "sleep" /\ r_pc = "check"
    /\ \E e \in TypedEnvelopes :
          /\ l_msg = Datagram("none", e)
          /\ recvlog = <<Datagram("none", e)>>
          /\ q = <<[id |-> 1, data |-> e]>>
    /\ cur = <<>>
    /\ nrecv = 1
    /\ enq = <<1>> /\ deq = <<>> /\ rep = <<>>
    /\ out = <<>> /\ excs = {} /\ sinkfail = {}
    /\ shutdown = FALSE /\ l_iter = 0 /\ r_iter = 0

TypedSpec == TypedInit /\ [][DispatchNext]_vars

\* Command lines of the startup runs: every combination of the four sinks
\* and --indent
StartupConfigs ==
    {[Cfg(raw, decoded, mqtt, influxdb, FALSE, FALSE, FALSE, {}, {})
          EXCEPT !.indent = indent] :
        raw \in BOOLEAN, decoded \in BOOLEAN, mqtt \in BOOLEAN,
        influxdb \in BOOLEAN, indent \in BOOLEAN}

\* The program from its start under any of these command lines
StartupInit ==
    /\ args \in StartupConfigs
    /\ main_pc = "start"
    /\ l_pc = "new" /\ r_pc = "new"
    /\ l_msg = <<>> /\ cur = <<>>
    /\ q = <<>>
    /\ nrecv = 0
    /\ recvlog = <<>> /\ enq = <<>> /\ deq = <<>> /\ rep = <<>>
    /\ out = <<>> /\ excs = {} /\ sinkfail = {}
    /\ shutdown = FALSE /\ l_iter = 0 /\ r_iter = 0

StartupSpec == StartupInit /\ [][LiveNext]_vars

----------------------------------------------------------------------------
(* Shorthands of the properties *)

Range(seq) == {seq[k] : k \in 1..Len(seq)}

IsPrefix(s, t) == Len(s) <= Len(t) /\ SubSeq(t, 1, Len(s)) = s

\* The envelope that arrived as datagram number i
Envelope(i) == recvlog[i].value

\* Something was emitted to `sink` for envelope number i
Emitted(i, sink) == \E k \in 1..Len(out) : out[k].id = i /\ out[k].sink = sink

\* report_it has been called on envelope i and the call is over
Dispatched(i) ==
    /\ i \in Range(rep)
    /\ ~(r_pc \in {"mqtt", "influx"} /\ cur.id = i)

----------------------------------------------------------------------------
\* C1: strict FIFO.  The reporter takes envelopes off the queue in the order
\* the listener put them there, and it has called report_it on each one it
\* took before it takes the next, whatever became of the earlier ones
\* (filtered, failed to decode, failed in a sink).
C1_StrictFifo ==
    /\ IsPrefix(deq, enq)
    /\ IsPrefix(rep, deq)
    /\ Len(deq) - Len(rep) <= 1
    /\ r_pc = "get" => Len(rep) = Len(deq)

\* Two envelopes were dispatched in arrival order, the first of them raised,
\* and a third was waiting in the queue behind them.
C1_Witness ==
    /\ Len(rep) >= 2
    /\ rep[1] \in excs
    /\ rep[1] < rep[2]
    /\ q # <<>>

\* C2: the receiver is never blocked or stopped by the consumer or a sink.
\* Wherever the reporter stands and however long the queue is, the listener's
\* next step can be taken (q.put never waits), the listener is still in its
\* loop, and every well-formed datagram it has handled is in the queue's
\* history: none was dropped.
C2_ReceiverNeverBlocked ==
    /\ main_pc = "join" => l_pc \in {"recv", "parse", "sleep"}
    /\ (l_pc = "recv" /\ nrecv < MaxDatagrams)
          => ENABLED (ListenerRecv(PipelineDatagrams) /\ l_pc' = "parse")
    /\ l_pc = "parse" => ENABLED ListenerPut
    /\ l_pc = "sleep" => ENABLED ListenerSleep
    /\ \A i \in 1..nrecv :
          (WellFormed(recvlog[i]) /\ ~(i = nrecv /\ l_pc = "parse"))
             => i \in Range(enq)

\* The reporter is inside publish.single, an envelope is waiting in the
\* queue, and the listener is about to put one more.
C2_Witness ==
    /\ r_pc = "mqtt"
    /\ Len(q) >= 1
    /\ l_pc = "parse" /\ WellFormed(l_msg)

\* Both loops are running: neither thread has left its `while 1:`
ThreadsAlive ==
    main_pc = "join" =>
        /\ l_pc \in {"recv", "parse", "sleep"}
        /\ r_pc \in {"check", "get", "report", "mqtt", "influx", "sleep"}

\* Datagram i has just been read and is well-formed, and by now a non-JSON
\* datagram was read or a JSON object without "type" was dequeued.
C3_ReceivedAfterBad(i) ==
    /\ l_pc = "parse" /\ nrecv = i /\ WellFormed(l_msg)
    /\ \/ \E j \in 1..(i - 1) : ~WellFormed(recvlog[j])
       \/ \E k \in 1..Len(deq) : ~HasKey(Envelope(deq[k]), "type")

\* C3: resilience.  A non-JSON datagram or a JSON object without "type" ends
\* neither thread, and every well-formed datagram read after one is still
\* enqueued and handed to report_it (the threads being scheduled fairly).
C3_Resilience ==
    /\ []ThreadsAlive
    /\ \A i \in 1..MaxDatagrams :
          C3_ReceivedAfterBad(i) ~> (i \in Range(enq) /\ i \in Range(rep))

\* A non-JSON datagram came first, then an object without "type" that the
\* reporter took and raised on, then a well-formed rapid_wind that was
\* dispatched and written to a sink.
C3_Witness ==
    /\ Len(recvlog) >= 3
    /\ ~WellFormed(recvlog[1])
    /\ WellFormed(recvlog[2]) /\ ~HasKey(Envelope(2), "type") /\ 2 \in excs
    /\ WellFormed(recvlog[3]) /\ Envelope(3) = E_rapid_wind
    /\ Dispatched(3) /\ Emitted(3, "influxdb")

\* Envelope i has no "type", or a type string report_it does not know
UnknownType(i) ==
    ~HasKey(Envelope(i), "type") \/ Envelope(i).type \notin RecognisedTypes

\* C4: every dequeued envelope whose type is absent or unrecognised is
\* reported: the "ERROR: unknown data type" line is printed for it, and the
\* syslog entry written when syslog is on.  None is dropped silently.
C4_UnknownTypeReported ==
    \A k \in 1..Len(rep) :
        UnknownType(rep[k]) =>
            /\ Emitted(rep[k], "error")
            /\ args.syslog => Emitted(rep[k], "syslog")

\* The filter as the specification words it: the allow-list first, then the deny-list
LimitThenExclude(a, T) ==
    LET allowed == IF a.limit = {} THEN TRUE ELSE T \in a.limit
    IN  IF allowed THEN T \notin a.exclude ELSE FALSE

\* C5: filtering.  An envelope of a recognised type T produces output of any
\* kind only if (limit is empty or T is in limit) and T is not in exclude,
\* that is, the outcome of limit applied first and exclude second; a filtered
\* envelope produces nothing, the raw print included, and one that is let
\* through is raw-printed whenever raw is on.
C5_Filtering ==
    \A i \in 1..nrecv :
        (WellFormed(recvlog[i]) /\ ~UnknownType(i)) =>
            /\ (\E k \in 1..Len(out) : out[k].id = i)
                  => LimitThenExclude(args, Envelope(i).type)
            /\ (i \in Range(rep) /\ args.raw
                /\ LimitThenExclude(args, Envelope(i).type))
                  => Emitted(i, "raw")

\* An envelope whose type is in both lists was dispatched with raw on and
\* produced nothing.
C5_Witness ==
    /\ 1 \in Range(rep) /\ ~UnknownType(1)
    /\ Envelope(1).type \in args.limit
    /\ Envelope(1).type \in args.exclude
    /\ args.raw /\ args.mqtt /\ args.influxdb
    /\ out = <<>>

\* Decoding envelope i fails: no type, an unrecognised type, or a decoded
\* type whose routine meets a missing key or a sequence too short
DecodeFails(i) ==
    \/ UnknownType(i)
    \/ /\ Envelope(i).type \in DecodedTypes
       /\ ~Reads(Envelope(i).type, Envelope(i))

SinkOutputs ==
    {"raw", "decoded", "decoded_partial", "mqtt_console", "mqtt_payload",
     "mqtt", "influxdb", "influxdb_failed"}

Forwardable(i) ==
    /\ ~UnknownType(i)
    /\ Envelope(i).type \in DecodedTypes
    /\ Reads(Envelope(i).type, Envelope(i))
    /\ args.limit = {} \/ Envelope(i).type \in args.limit
    /\ Envelope(i).type \notin args.exclude

\* mqtt_publish, influxdb_publish was called for envelope i
MqttCalled(i) == Emitted(i, "mqtt_console")

InfluxCalled(i) == Emitted(i, "influxdb") \/ Emitted(i, "influxdb_failed")

\* C7: per-sink isolation.  Once the dispatch of a forwardable envelope is
\* over, every enabled network sink has been handed the record, whether or
\* not another sink (the decoded print, the MQTT publish) failed on it; in
\* particular a failed MQTT publish does not keep the record from InfluxDB.
C7_PerSinkIsolation ==
    \A i \in 1..nrecv :
        (WellFormed(recvlog[i]) /\ Forwardable(i) /\ Dispatched(i)) =>
            /\ args.mqtt => MqttCalled(i)
            /\ args.influxdb => InfluxCalled(i)

\* Envelope i is waiting in the queue after the dispatch of an earlier one
\* raised
C8_QueuedAfterFailure(i) ==
    /\ \E k \in 1..Len(q) : q[k].id = i
    /\ \E j \in excs : j < i

\* Envelope i, dispatched after an earlier one raised and without raising
\* itself, reached every enabled sink
C8_Unaffected ==
    \A i \in 1..nrecv :
        (/\ WellFormed(recvlog[i]) /\ Forwardable(i) /\ Dispatched(i)
         /\ i \notin excs
         /\ \E j \in excs : j < i)
        => /\ args.raw => Emitted(i, "raw")
           /\ args.decoded => Emitted(i, "decoded")
           /\ (args.mqtt /\ ~args.no_pub) => Emitted(i, "mqtt")
           /\ args.influxdb => InfluxCalled(i)

\* C8: no error is fatal to the consumer.  After report_it raised for one
\* record (a decode or a sink call failed) the reporter is still in its loop,
\* every envelope in the queue then or later is dequeued and dispatched (the
\* threads being scheduled fairly), and its own sink calls are made as if
\* nothing had failed before.
C8_ConsumerSurvives ==
    /\ [](main_pc = "join" =>
            r_pc \in {"check", "get", "report", "mqtt", "influx", "sleep"})
    /\ []C8_Unaffected
    /\ \A i \in 1..MaxDatagrams : C8_QueuedAfterFailure(i) ~> Dispatched(i)

\* The MQTT publish of the first envelope failed; a later envelope was then
\* dispatched and reached the broker and InfluxDB.
C8_Witness ==
    \E i \in 2..nrecv :
        /\ [id |-> 1, sink |-> "mqtt"] \in sinkfail
        /\ WellFormed(recvlog[i]) /\ Forwardable(i) /\ Dispatched(i)
        /\ i \notin excs
        /\ Emitted(i, "mqtt") /\ Emitted(i, "influxdb")

\* C9: every sink failure is caught and reported.  For each failed MQTT
\* publish and each failed InfluxDB write a failure report has been emitted
\* for that record once its dispatch is over.
C9_SinkFailureReported ==
    \A f \in sinkfail :
        Dispatched(f.id) =>
            /\ f.sink = "mqtt" => Emitted(f.id, "mqtt_failed")
            /\ f.sink = "influxdb" => Emitted(f.id, "influxdb_failed")

\* C10: cooperative shutdown.  Once a shutdown is requested each loop begins
\* at most one further iteration (it then stops, and the joins return).
C10_CooperativeShutdown ==
    shutdown => (l_iter <= 1 /\ r_iter <= 1)

----------------------------------------------------------------------------
\* The key of the positional sequence process_<T> reads, and how many of its
\* elements it reads
PositionalKey(T) ==
    CASE T \in {"evt_precip", "evt_strike"}     -> "evt"
      [] T = "rapid_wind"                        -> "ob"
      [] T \in {"obs_air", "obs_sky", "obs_st"}  -> "obs"
      [] T = "hub_status"                        -> "radio_stats"

PositionalCount(T) ==
    CASE T = "evt_precip" -> 1
      [] T = "evt_strike" -> 3
      [] T = "rapid_wind" -> 3
      [] T = "obs_air"    -> 8
      [] T = "obs_sky"    -> 14
      [] T = "obs_st"     -> 18
      [] T = "hub_status" -> 5

\* The positional sequence of envelope e: evt, ob, obs[0] or radio_stats (an
\* empty obs has no obs[0]: nothing is there to read)
Positional(e) ==
    IF PositionalKey(e.type) = "obs"
    THEN IF e.obs = <<>> THEN <<>> ELSE e.obs[1]
    ELSE e[PositionalKey(e.type)]

\* Envelope i is of a variant with a positional sequence, and the sequence
\* has fewer elements than the variant reads
ShortPositional(i) ==
    /\ ~UnknownType(i)
    /\ Envelope(i).type \in DecodedTypes \ {"device_status"}
    /\ HasKey(Envelope(i), PositionalKey(Envelope(i).type))
    /\ Len(Positional(Envelope(i))) < PositionalCount(Envelope(i).type)

\* The fixed attribute set of each variant
Attributes(T) ==
    CASE T = "evt_precip" -> {"timestamp"}
      [] T = "evt_strike" -> {"timestamp", "distance", "energy"}
      [] T = "rapid_wind" -> {"timestamp", "speed", "direction"}
      [] T = "obs_air" ->
            {"timestamp", "station_pressure", "temperature",
             "relative_humidity", "lightning_strike_count",
             "lightning_strike_avg_distance", "battery", "report_interval",
             "firmware_revision"}
      [] T = "obs_sky" ->
            {"timestamp", "illuminance", "uv", "rain_accumulated", "wind_lull",
             "wind_avg", "wind_gust", "wind_direction", "battery",
             "report_interval", "solar_radiation",
             "local_rain_day_accumulation", "precipitation_type",
             "wind_sample_interval", "firmware_revision"}
      [] T = "obs_st" ->
            {"timestamp", "wind_lull", "wind_avg", "wind_gust",
             "wind_direction", "wind_sample_interval", "station_pressure",
             "temperature", "relative_humidity", "illuminance", "uv",
             "solar_radiation", "rain_accumulated", "precipitation_type",
             "lightning_strike_avg_distance", "lightning_strike_count",
             "battery", "report_interval", "firmware_revision"}
      [] T = "device_status" ->
            {"device", "timestamp", "uptime", "voltage", "firmware_revision",
             "rssi", "hub_rssi", "sensor_status", "debug"}
      [] T = "hub_status" ->
            {"device", "firmware_revision", "uptime", "rssi", "timestamp",
             "reset_flags", "seq", "radio_stats_version", "reboot_count",
             "i2c_bus_error_count", "radio_status", "radio_network_id"}

\* The outputs that carry a record, and the record each carries
RecordSinks == {"decoded", "decoded_partial", "mqtt_payload", "mqtt", "influxdb"}

Payload(ev) ==
    CASE ev.sink \in {"decoded", "decoded_partial"} -> ev.what.record
      [] ev.sink = "mqtt_payload"                    -> ev.what
      [] ev.sink = "mqtt"                            -> ev.what.payload
      [] ev.sink = "influxdb"                        -> ev.what.fields

\* C11: no partial record.  An envelope whose positional sequence (evt, ob,
\* obs[0], radio_stats) is shorter than its variant reads is a decode failure:
\* once the filters let it through, report_it raises on it and no decoded
\* print, MQTT publish or InfluxDB write is made for it; and every record
\* that a decoded print, an MQTT publish or an InfluxDB write is made with
\* has every attribute of its variant's fixed attribute set.
C11_NoPartialRecord ==
    /\ \A i \in Range(rep) :
          (ShortPositional(i) /\ LimitThenExclude(args, Envelope(i).type)) =>
              /\ i \in excs
              /\ \A k \in 1..Len(out) :
                    out[k].id = i =>
                        out[k].sink \notin (RecordSinks \cup {"mqtt_console"})
    /\ \A k \in 1..Len(out) :
          out[k].sink \in RecordSinks =>
              DOMAIN Payload(out[k]) = Attributes(Envelope(out[k].id).type)

\* A hub_status whose radio_stats is one element short was dispatched with
\* the decoded print and both network sinks on, and report_it raised on it
\* without any of them being reached.
C11_Witness ==
    /\ Envelope(1) = E_hub_status_short
    /\ args.decoded /\ args.mqtt /\ args.influxdb /\ ~args.raw
    /\ 1 \in excs
    /\ out = <<>>

\* The decoding of envelope i was attempted and failed: it has no type or an
\* unrecognised one, or the filters let it through and its routine met a
\* missing key, a short positional sequence or a value int() rejects
DecodeAttemptFailed(i) ==
    \/ UnknownType(i)
    \/ /\ Envelope(i).type \in DecodedTypes
       /\ LimitThenExclude(args, Envelope(i).type)
       /\ ~Reads(Envelope(i).type, Envelope(i))

\* A console line that contains envelope i: the ERROR line, or its raw print
OnConsoleWithPayload(i) ==
    \E k \in 1..Len(out) :
        /\ out[k].id = i
        /\ \/ out[k].sink = "error" /\ out[k].what = Envelope(i)
           \/ out[k].sink = "raw" /\ out[k].what.data = Envelope(i)

\* C12: every decode error and unknown-type error is surfaced on the console
\* with the offending payload.  For each envelope report_it was called on and
\* whose decoding failed for any reason, a console line containing that
\* envelope has been printed.
C12_DecodeErrorSurfaced ==
    \A i \in Range(rep) : DecodeAttemptFailed(i) => OnConsoleWithPayload(i)

\* Flag number t (1 for 0x001 .. 9 for 0x100) is set in mask m
FlagSet(t, m) == (m \div (2 ^ (t - 1))) % 2 = 1

FlagsOf(m) == {t \in 1..Len(decode_sensor_status_err_text) : FlagSet(t, m)}

\* d is the text for mask m: "sensors ok" for 0; otherwise the descriptions
\* of the flags set in m, each once, in ascending flag order, with ", "
\* between them.  The j-th description is that of the set flag with j - 1
\* set flags below it.
SensorStatusText(m, d) ==
    IF m = 0 THEN d = <<"sensors ok">>
    ELSE /\ Len(d) = IF FlagsOf(m) = {} THEN 0
                                        ELSE 2 * Cardinality(FlagsOf(m)) - 1
         /\ \A j \in 1..Len(d) :
               IF j % 2 = 0 THEN d[j] = ", "
               ELSE \E t \in FlagsOf(m) :
                       /\ d[j] = decode_sensor_status_err_text[t].text
                       /\ Cardinality({u \in FlagsOf(m) : u < t}) = (j - 1) \div 2

\* C13: decode_sensor_status.  For every mask in 0..0x1FF the text shown on
\* the decoded device_status line is "sensors ok" for mask 0 and otherwise
\* the descriptions of exactly the flags set, each once, in ascending bit
\* order, joined by ", "; several set flags are all shown.
C13_DecodeSensorStatus ==
    \A k \in 1..Len(out) :
        out[k].sink = "decoded" =>
            SensorStatusText(int(Envelope(out[k].id).sensor_status),
                             out[k].what.derived.sensor_status)

\* The mask 0x009 was decoded and shown as "lightning failed, pressure failed"
C13_Witness ==
    \E k \in 1..Len(out) :
        /\ out[k].sink = "decoded"
        /\ Envelope(out[k].id).sensor_status = JNum(9)
        /\ out[k].what.derived.sensor_status
              = <<"lightning failed", ", ", "pressure failed">>

\* The device kind the serial number's prefix stands for
KindOfPrefix(sn) ==
    IF IsPrefix(<<"A", "R", "-">>, sn) THEN "air"
    ELSE IF IsPrefix(<<"S", "K", "-">>, sn) THEN "sky"
    ELSE IF IsPrefix(<<"S", "T", "-">>, sn) THEN "tempest"
    ELSE "unknown_type"

\* C14: the device kind is a function of the serial_number prefix only.  On
\* every device_status record printed or forwarded, the device kind is air,
\* sky or tempest when the serial number starts with "AR-", "SK-" or "ST-",
\* and the unknown value otherwise, whatever follows the prefix.
C14_KindFromPrefix ==
    \A k \in 1..Len(out) :
        out[k].sink \in RecordSinks =>
            Payload(out[k]).device
                = KindOfPrefix(Envelope(out[k].id).serial_number)

\* The documented positions: the attribute that position k (from 0) of the
\* variant's positional sequence stands for
FieldAt(T) ==
    CASE T = "evt_precip" -> <<"timestamp">>
      [] T = "evt_strike" -> <<"timestamp", "distance", "energy">>
      [] T = "rapid_wind" -> <<"timestamp", "speed", "direction">>
      [] T = "obs_air" ->
            <<"timestamp", "station_pressure", "temperature",
              "relative_humidity", "lightning_strike_count",
              "lightning_strike_avg_distance", "battery", "report_interval">>
      [] T = "obs_sky" ->
            <<"timestamp", "illuminance", "uv", "rain_accumulated",
              "wind_lull", "wind_avg", "wind_gust", "wind_direction",
              "battery", "report_interval", "solar_radiation",
              "local_rain_day_accumulation", "precipitation_type",
              "wind_sample_interval">>
      [] T = "obs_st" ->
            <<"timestamp", "wind_lull", "wind_avg", "wind_gust",
              "wind_direction", "wind_sample_interval", "station_pressure",
              "temperature", "relative_humidity", "illuminance", "uv",
              "solar_radiation", "rain_accumulated", "precipitation_type",
              "lightning_strike_avg_distance", "lightning_strike_count",
              "battery", "report_interval">>
      [] T = "hub_status" ->
            <<"radio_stats_version", "reboot_count", "i2c_bus_error_count",
              "radio_status", "radio_network_id">>

\* Output k carries a record of a variant that has a positional sequence
PositionalRecord(k) ==
    /\ out[k].sink \in RecordSinks
    /\ Envelope(out[k].id).type \in DecodedTypes \ {"device_status"}

\* C15: positional mapping.  Each positional field of a record that is
\* printed or forwarded equals the envelope element at the documented
\* position of its variant: obs_st index 4 is wind_direction, obs_sky index 7
\* is wind_direction and index 12 precipitation_type, obs_air index 4 is
\* lightning_strike_count, rapid_wind ob is [timestamp, speed, direction],
\* evt_strike evt is [timestamp, distance, energy], and so on for every
\* position of every variant.
C15_PositionalMapping ==
    \A k \in 1..Len(out) :
        PositionalRecord(k) =>
            LET e == Envelope(out[k].id)
            IN  /\ Len(FieldAt(e.type)) = PositionalCount(e.type)
                /\ \A p \in 1..Len(FieldAt(e.type)) :
                      Payload(out[k])[FieldAt(e.type)[p]] = Positional(e)[p]

\* An obs_st whose obs[0] holds a different value at every position reached
\* the broker, its wind_direction the value of position 4; and so did the
\* record reach InfluxDB.
C15_Witness ==
    /\ Envelope(1) = E_obs_st_numbered
    /\ \E k \in 1..Len(out) :
          /\ out[k].sink = "mqtt"
          /\ out[k].what.payload.wind_direction = 104
          /\ out[k].what.payload.report_interval = 117
    /\ Emitted(1, "influxdb")

\* The topic path fixed for each record kind; rec is the record published
KindPath(T, rec) ==
    CASE T = "obs_air"       -> <<"obs_air">>
      [] T = "obs_sky"       -> <<"obs_sky">>
      [] T = "obs_st"        -> <<"obs_st">>
      [] T = "rapid_wind"    -> <<"rapid_wind">>
      [] T = "evt_precip"    -> <<"evt", "precip">>
      [] T = "evt_strike"    -> <<"evt", "strike">>
      [] T = "device_status" -> <<"status", rec.device>>
      [] T = "hub_status"    -> <<"status_hub">>

\* <toplevel>/<path(K)>, behind sensors/<serial_number>/ in multi-sensor mode
TopicOfKind(a, e, rec) ==
    (IF a.mqtt_multisensor
     THEN <<"sensors/">> \o e.serial_number \o <<"/">> ELSE <<>>)
    \o (IF a.mqtt_topic = <<>> THEN <<"wf">> ELSE a.mqtt_topic)
    \o <<"/">> \o KindPath(e.type, rec)

\* C16: message-bus topic.  Every publish goes to <toplevel>/<path(K)> with
\* the path fixed per record kind (status/<device_kind> for device_status),
\* and the topic has the prefix sensors/<serial_number>/, with the serial
\* number of the record's own envelope, exactly when multi-sensor mode is on;
\* the topic announced on the console is the same.
C16_MqttTopic ==
    \A k \in 1..Len(out) :
        /\ out[k].sink = "mqtt" =>
              out[k].what.topic
                  = TopicOfKind(args, Envelope(out[k].id), out[k].what.payload)
        /\ out[k].sink = "mqtt_console" =>
              out[k].what
                  = TopicOfKind(args, Envelope(out[k].id),
                                Record(Envelope(out[k].id).type,
                                       Envelope(out[k].id)))

\* A device_status of a sky device reached the broker in multi-sensor mode
\* under --mqtt_topic home, on sensors/SK-1/home/status/sky.
C16_Witness ==
    \E k \in 1..Len(out) :
        /\ out[k].sink = "mqtt"
        /\ args.mqtt_multisensor /\ args.mqtt_topic = <<"home">>
        /\ out[k].what.topic
              = <<"sensors/", "S", "K", "-", "1", "/", "home", "/", "status",
                  "sky">>

\* C17: time-series measurement name.  For every point written to InfluxDB
\* the measurement is the record-kind identifier of its record (obs_air,
\* rapid_wind, hub_status, ...), whatever the top-level topic and whether or
\* not multi-sensor mode is on.
C17_MeasurementIsKind ==
    \A k \in 1..Len(out) :
        out[k].sink = "influxdb" =>
            out[k].what.measurement = <<Envelope(out[k].id).type>>

\* The time value of envelope e: evt[0], ob[0], obs[0][0] or the top-level
\* timestamp
TimeOf(e) ==
    CASE e.type \in {"evt_precip", "evt_strike"}    -> e.evt[1]
      [] e.type = "rapid_wind"                       -> e.ob[1]
      [] e.type \in {"obs_air", "obs_sky", "obs_st"} -> e.obs[1][1]
      [] e.type \in {"device_status", "hub_status"}  -> e.timestamp

\* Other keys a record could carry the time under
OtherTimeKeys == {"time_epoch", "time", "ts", "epoch"}

\* C18: canonical timestamp key.  Every record handed to the MQTT sink
\* (announced under --no_pub or published) or to InfluxDB, of each of the
\* eight variants, has the key "timestamp" holding the envelope's time value,
\* and has the time under no other key; the InfluxDB point is stamped with
\* that same value.
C18_CanonicalTimestamp ==
    \A k \in 1..Len(out) :
        out[k].sink \in {"mqtt_payload", "mqtt", "influxdb"} =>
            /\ "timestamp" \in DOMAIN Payload(out[k])
            /\ Payload(out[k]).timestamp = TimeOf(Envelope(out[k].id))
            /\ DOMAIN Payload(out[k]) \cap OtherTimeKeys = {}
            /\ out[k].sink = "influxdb" =>
                  out[k].what.time = TimeOf(Envelope(out[k].id))

\* A hub_status, whose time is its top-level timestamp, reached the broker
\* and InfluxDB with that value under "timestamp".
C18_Witness ==
    /\ Envelope(1) = E_hub_status
    /\ \E k \in 1..Len(out) :
          out[k].sink = "mqtt" /\ out[k].what.payload.timestamp = 18
    /\ \E k \in 1..Len(out) :
          out[k].sink = "influxdb" /\ out[k].what.fields.timestamp = 18

\* Envelope e holds a JSON string in a numeric field: rapid_wind's ob,
\* device_status's sensor_status bitmask, hub_status's firmware_revision
StringInNumericField(e) ==
    CASE e.type = "rapid_wind"    -> \E p \in 1..Len(e.ob) : IsStr(e.ob[p])
      [] e.type = "device_status" -> IsStr(e.sensor_status)
      [] e.type = "hub_status"    -> IsStr(e.firmware_revision)

\* C19: no silent type coercion.  An envelope in which a numeric field holds
\* a JSON string is never forwarded to the MQTT sink or to InfluxDB, neither
\* with the string left as it is nor with it converted to a number.
C19_NoCoercion ==
    \A k \in 1..Len(out) :
        out[k].sink \in {"mqtt", "influxdb"} =>
            ~StringInNumericField(Envelope(out[k].id))

\* C20: startup validation of --indent.  A run with indent set and decoded
\* not set exits at startup with neither thread started; a run with indent
\* and decoded both set is not rejected and starts its threads.
C20_IndentRequiresDecoded ==
    main_pc # "start" =>
        /\ (args.indent /\ ~args.decoded) =>
              (main_pc = "exit" /\ l_pc = "new" /\ r_pc = "new")
        /\ (args.indent /\ args.decoded) => main_pc = "join"

\* C21: --no_pub reports but does not publish.  With no_pub set no message
\* reaches the MQTT broker; for every record that passes the filters with
\* mqtt on, the topic and the payload are printed on the console once its
\* dispatch is over; and the InfluxDB write is made as without no_pub.
C21_NoPubReports ==
    args.no_pub =>
        /\ \A k \in 1..Len(out) : out[k].sink # "mqtt"
        /\ \A i \in 1..nrecv :
              (WellFormed(recvlog[i]) /\ Forwardable(i) /\ Dispatched(i)) =>
                  /\ args.mqtt => /\ Emitted(i, "mqtt_console")
                                  /\ Emitted(i, "mqtt_payload")
                  /\ args.influxdb => InfluxCalled(i)

\* C22: receiver errors never cross the queue boundary.  Every element of
\* the queue is the value json.loads returned for one received datagram, and
\* no two elements come from the same datagram; a datagram whose byte
\* decoding or JSON parsing failed was never put in the queue; and after such
\* a datagram, as after a read that found none, the listener goes on to its
\* sleep and its next iteration with the queue as it was.
C22_QueueHoldsParsedValues ==
    /\ \A k \in 1..Len(q) :
          /\ q[k].id \in 1..nrecv
          /\ WellFormed(recvlog[q[k].id])
          /\ q[k].data = recvlog[q[k].id].value
    /\ \A j, k \in 1..Len(q) : q[j].id = q[k].id => j = k
    /\ \A i \in 1..nrecv : ~WellFormed(recvlog[i]) => i \notin Range(enq)
    /\ (l_pc = "parse" /\ ~WellFormed(l_msg))
          => ENABLED (ListenerPut /\ l_pc' = "sleep" /\ q' = q)
    /\ l_pc = "recv"
          => ENABLED (ListenerRecv(PipelineDatagrams) /\ l_pc' = "sleep" /\ q' = q)
    /\ main_pc = "join" => l_pc \in {"recv", "parse", "sleep"}

\* A datagram that is not UTF-8 and one that is not JSON were read and
\* dropped, and the third, a well-formed one, is the only element of the
\* queue.
C22_Witness ==
    /\ Len(recvlog) = 3
    /\ recvlog[1].fault = "utf8" /\ recvlog[2].fault = "json"
    /\ WellFormed(recvlog[3])
    /\ enq = <<3>>
    /\ Len(q) = 1 /\ q[1].data = recvlog[3].value

\* The events of envelope i at one of `sinks`
CallsOf(i, sinks) == {k \in 1..Len(out) : out[k].id = i /\ out[k].sink \in sinks}

NoRepeat(seq) == \A j, k \in 1..Len(seq) : seq[j] = seq[k] => j = k

\* No envelope was enqueued, dequeued or passed to report_it twice; only
\* enqueued envelopes are dequeued and only dequeued ones dispatched; an
\* envelope that was dequeued is not in the queue again; and for each
\* envelope each sink was called at most once.
C23_AtMostOnce ==
    /\ NoRepeat(enq) /\ NoRepeat(deq) /\ NoRepeat(rep)
    /\ Range(rep) \subseteq Range(deq)
    /\ Range(deq) \subseteq Range(enq)
    /\ \A k \in 1..Len(q) : q[k].id \notin Range(deq)
    /\ \A i \in 1..nrecv :
          /\ Cardinality(CallsOf(i, {"raw"})) <= 1
          /\ Cardinality(CallsOf(i, {"decoded"})) <= 1
          /\ Cardinality(CallsOf(i, {"mqtt_console"})) <= 1
          /\ Cardinality(CallsOf(i, {"mqtt"})) <= 1
          /\ Cardinality(CallsOf(i, {"influxdb", "influxdb_failed"})) <= 1

\* C23: no loss, no duplication, no retry.  Every envelope the listener
\* enqueues is eventually dequeued and passed to report_it (the threads being
\* scheduled fairly), and never more than once; an envelope whose dispatch
\* raised is not put back in the queue nor dispatched again; and each sink is
\* called at most once for an envelope.
C23_ExactlyOnce ==
    /\ []C23_AtMostOnce
    /\ \A i \in 1..MaxDatagrams :
          (i \in Range(enq)) ~> (i \in Range(deq) /\ i \in Range(rep))

\* The dispatch of the first envelope raised; the reporter went on, took the
\* next one and dispatched it to InfluxDB, and is idle with the queue empty.
C23_Witness ==
    /\ 1 \in excs
    /\ rep = <<1, 2>> /\ deq = <<1, 2>> /\ enq = <<1, 2>>
    /\ Dispatched(2) /\ Emitted(2, "influxdb")
    /\ q = <<>> /\ r_pc = "sleep"

\* C24: the consumer never blocks on the queue.  Whenever the reporter stands
\* at `data = q.get()` the queue is not empty, whatever the listener did
\* since `q.empty()` was read, so the get can be taken at once; and at its
\* other steps the reporter never waits for the listener either: once the
\* threads run, one of its steps can always be taken.
C24_GetNeverBlocks ==
    /\ r_pc = "get" => (q # <<>> /\ ENABLED ReporterGet)
    /\ main_pc = "join" => ENABLED reporter_task

\* The reporter took the first envelope off the queue while the second,
\* which the listener had put meanwhile, waits behind it.
C24_Witness ==
    /\ r_pc = "report"
    /\ deq = <<1>> /\ cur.id = 1
    /\ Len(q) = 1 /\ q[1].id = 2

\* Envelope i is one of the three debug types
IsDebug(i) ==
    /\ WellFormed(recvlog[i])
    /\ HasKey(Envelope(i), "type")
    /\ Envelope(i).type \in {"wind_debug", "light_debug", "rain_debug"}

\* C25: debug envelopes are carried opaquely.  Under every command line the
\* only output for a wind_debug, light_debug or rain_debug envelope is one
\* raw print of the envelope as received, made exactly when --raw is on and
\* the exclude and limit filters let the type through; its dispatch never
\* raises and never enters a network sink, whatever else the envelope holds.
C25_DebugOpaque ==
    \A i \in 1..nrecv :
        IsDebug(i) =>
            LET T      == Envelope(i).type
                passes == /\ ~(args.exclude # {} /\ T \in args.exclude)
                          /\ ~(args.limit # {} /\ T \notin args.limit)
            IN  /\ \A k \in 1..Len(out) :
                      out[k].id = i =>
                          /\ out[k].sink = "raw"
                          /\ args.raw /\ passes
                          /\ out[k].what.data = Envelope(i)
                /\ Cardinality(CallsOf(i, {"raw"})) <= 1
                /\ (Dispatched(i) /\ args.raw /\ passes) => Emitted(i, "raw")
                /\ i \notin excs
                /\ ~(r_pc \in {"mqtt", "influx"} /\ cur.id = i)

\* A wind_debug envelope was dispatched with every sink on and the type on
\* the allow-list: one raw print and nothing else.
C25_Witness ==
    /\ IsDebug(1) /\ Envelope(1).type = "wind_debug"
    /\ args.raw /\ args.decoded /\ args.mqtt /\ args.influxdb /\ ~args.no_pub
    /\ "wind_debug" \in args.limit
    /\ Dispatched(1) /\ r_pc = "check"
    /\ Len(out) = 1 /\ out[1].sink = "raw"

\* Envelope i is of one of the eight decoded types and has no serial_number
LacksSerial(i) ==
    /\ WellFormed(recvlog[i])
    /\ HasKey(Envelope(i), "type")
    /\ Envelope(i).type \in {"evt_precip", "evt_strike", "rapid_wind",
                              "obs_air", "obs_sky", "obs_st", "device_status",
                              "hub_status"}
    /\ ~HasKey(Envelope(i), "serial_number")

\* C26: serial_number is required by every decoded variant.  An envelope of
\* one of the eight decoded types that has no serial_number key produces no
\* decoded print, no MQTT console line or publish and no InfluxDB write,
\* with multi-sensor mode on or off; its dispatch raises as soon as the
\* filters let it through.
C26_SerialRequired ==
    \A i \in 1..nrecv :
        LacksSerial(i) =>
            LET T      == Envelope(i).type
                passes == /\ ~(args.exclude # {} /\ T \in args.exclude)
                          /\ ~(args.limit # {} /\ T \notin args.limit)
            IN  /\ CallsOf(i, {"decoded", "decoded_partial", "mqtt_console",
                               "mqtt_payload", "mqtt", "influxdb",
                               "influxdb_failed"}) = {}
                /\ ~(r_pc \in {"mqtt", "influx"} /\ cur.id = i)
                /\ (Dispatched(i) /\ passes) => i \in excs

\* A hub_status complete but for its serial_number was dispatched with
\* multi-sensor mode off and every sink on: the raw print and an exception.
C26_Witness ==
    /\ LacksSerial(1) /\ Envelope(1).type = "hub_status"
    /\ Envelope(1) = NoSerial(E_hub_status)
    /\ ~args.mqtt_multisensor
    /\ args.raw /\ args.decoded /\ args.mqtt /\ args.influxdb
    /\ args.limit = {} /\ args.exclude = {}
    /\ Dispatched(1) /\ 1 \in excs
    /\ Len(out) = 1 /\ out[1].sink = "raw"

====
